---------------------------- MODULE Spec2Model ----------------------------
(***************************************************************************)
(* usb_reset: parse a vendor_id:product_id pair, find the first attached   *)
(* USB device with these ids, optionally compare its product/manufacturer  *)
(* strings with expected ones, and reset it.  Model of src/usb_reset.cpp.  *)
(*                                                                         *)
(* A C string is a sequence of one-character strings (argv[1]) wherever    *)
(* the code looks at single characters, and a TLA+ string wherever the     *)
(* code only compares or prints it (argv[2], argv[3], string descriptors). *)
(* A pointer is a sequence of length 0 (nullptr) or 1 (the pointee).       *)
(***************************************************************************)
EXTENDS Integers, Sequences, FiniteSets, TLC

VARIABLES
    pc,         \* position in main / reset
    argv,       \* argv[1..argc-1]
    pair,       \* <<>> or <<p>>: the value parse_argv1 returned
    product,    \* reset's parameter: <<>> (nullptr) or <<argv[2]>>
    manufacturer, \* reset's parameter: <<>> (nullptr) or <<argv[3]>>
    exc,        \* <<>> or <<what>>: the exception in flight
    ctx,        \* TRUE while the UsbContext object is constructed
    devsLive,   \* TRUE while the DeviceList object is constructed
    devs,       \* the list libusb_get_device_list returned
    i,          \* loop variable of reset
    desc,       \* <<>> or <<d>>: the descriptor read in this iteration
    hnd,        \* TRUE while the DeviceHandle object is constructed
    arr,        \* <<>> (not yet written) or <<s>>: C string in arr[256]
    prod,       \* std::string prod
    manu,       \* std::string manu
    out,        \* lines written to std::cout
    log,        \* calls made to libusb, in order
    exitCode    \* -1 while running, then main's return value

vars == <<pc, argv, pair, product, manufacturer, exc, ctx, devsLive, devs, i,
          desc, hnd, arr, prod, manu, out, log, exitCode>>

-----------------------------------------------------------------------------
(* Bounds of the model *)

\* most devices a snapshot holds
MaxDevs == 2

-----------------------------------------------------------------------------
(* Characters and unsigned long arithmetic *)

Digits16 == <<"0", "1", "2", "3", "4", "5", "6", "7", "8", "9",
              "a", "b", "c", "d", "e", "f">>

Upper16 == <<"0", "1", "2", "3", "4", "5", "6", "7", "8", "9",
             "A", "B", "C", "D", "E", "F">>

\* isxdigit
IsXDigit(c) == \E k \in 1..16 : Digits16[k] = c \/ Upper16[k] = c

\* the value of a hexadecimal digit
XDigitValue(c) == (CHOOSE k \in 1..16 : Digits16[k] = c \/ Upper16[k] = c) - 1

\* isspace in the C locale (the vertical tab has no TLA+ escape and is not
\* among the characters of the inputs)
IsSpace(c) == c \in {" ", "\t", "\n", "\r", "\f"}

\* unsigned long is ULongLimbs limbs of 16 bits, least significant first
ULongLimbs == 4

LimbBase == 65536

RECURSIVE ToULong(_, _)
ToULong(v, n) ==
    IF n = 0 THEN <<>> ELSE <<v % LimbBase>> \o ToULong(v \div LimbBase, n - 1)

\* l + carry, modulo 2^(16 * Len(l))
RECURSIVE AddCarry(_, _)
AddCarry(l, carry) ==
    IF l = <<>> THEN <<>>
    ELSE <<(l[1] + carry) % LimbBase>>
         \o AddCarry(Tail(l), (l[1] + carry) \div LimbBase)

\* unsigned negation: the two's complement
NegULong(l) == AddCarry([k \in 1..Len(l) |-> (LimbBase - 1) - l[k]], 1)

\* num >= 65536
AtLeast65536(num) == \E k \in 2..Len(num) : num[k] # 0

\* conversion of unsigned long to uint16_t
ToUint16(num) == num[1]

-----------------------------------------------------------------------------
(* strtoul(s, &ptr, 16) on a string of at most 4 characters: the value as  *)
(* an unsigned long and the offset ptr - s.  Position Len(s) + 1 is the    *)
(* terminating NUL, which is no space, sign, digit or 'x'.                 *)

CharAt(s, k) == IF k <= Len(s) THEN s[k] ELSE "NUL"

RECURSIVE SkipSpace(_, _)
SkipSpace(s, k) == IF IsSpace(CharAt(s, k)) THEN SkipSpace(s, k + 1) ELSE k

RECURSIVE DigitsEnd(_, _)
DigitsEnd(s, k) == IF IsXDigit(CharAt(s, k)) THEN DigitsEnd(s, k + 1) ELSE k

\* value of the digits s[from..to], most significant first
RECURSIVE Accumulate(_, _, _, _)
Accumulate(s, from, to, acc) ==
    IF from > to THEN acc
    ELSE Accumulate(s, from + 1, to, acc * 16 + XDigitValue(s[from]))

strtoul(s) ==
    LET a == SkipSpace(s, 1)
        neg == CharAt(s, a) = "-"
        b == IF CharAt(s, a) \in {"-", "+"} THEN a + 1 ELSE a
        prefix == CharAt(s, b) = "0" /\ CharAt(s, b + 1) \in {"x", "X"}
        c == IF prefix THEN b + 2 ELSE b
        e == DigitsEnd(s, c)
        v == ToULong(Accumulate(s, c, e - 1, 0), ULongLimbs)
    IN  IF e = c
        THEN \* no digits: after "0x" the subject is the "0", else no conversion
             [num |-> ToULong(0, ULongLimbs), endp |-> IF prefix THEN b ELSE 0]
        ELSE [num |-> IF neg THEN NegULong(v) ELSE v, endp |-> e - 1]

-----------------------------------------------------------------------------
(* parse_argv1 *)

FormatMsg == "Please provide correct vendor_id:product_id pair."
VendorMsg == "Invalid vendor_id"
ProductMsg == "Invalid product_id"

Throw(what) == [ok |-> FALSE, what |-> what, p |-> <<0, 0>>]
Return(p) == [ok |-> TRUE, what |-> "", p |-> p]

\* faulty variant of parse_argv1: the range checks are off by one
parse_argv1_OffByOne(in) ==
    IF Len(in) # 9 \/ in[5] # ":" THEN Throw(FormatMsg)
    ELSE LET r1 == strtoul(SubSeq(in, 1, 4))
             r2 == strtoul(SubSeq(in, 6, 9))
         IN  IF r1.endp # 4 \/ AtLeast65536(r1.num) \/ ToUint16(r1.num) = 65535
             THEN Throw(VendorMsg)
             ELSE IF r2.endp # 4 \/ AtLeast65536(r2.num)
                     \/ ToUint16(r2.num) = 65535
             THEN Throw(ProductMsg)
             ELSE Return(<<ToUint16(r1.num), ToUint16(r2.num)>>)

parse_argv1(in) ==
    IF Len(in) # 9 \/ in[5] # ":" THEN Throw(FormatMsg)
    ELSE LET s1 == SubSeq(in, 1, 4)
             s2 == SubSeq(in, 6, 9)
             r1 == strtoul(s1)
             r2 == strtoul(s2)
         IN  IF r1.endp # 4 \/ AtLeast65536(r1.num) THEN Throw(VendorMsg)
             ELSE IF r2.endp # 4 \/ AtLeast65536(r2.num) THEN Throw(ProductMsg)
             ELSE Return(<<ToUint16(r1.num), ToUint16(r2.num)>>)

-----------------------------------------------------------------------------
(* What the program is run with and what the host answers *)

\* strings: expected names, string descriptors, leftover bytes of arr
Strings == {"", "Dell", "Dell USB Keyboard"}

\* argv[1] of the runs of Spec
Argv1s ==
    { <<"4", "1", "3", "c", ":", "2", "0", "0", "3">>,
      <<"+", "1", "2", "3", ":", "0", "0", "0", "1">>,
      <<"4", "1", "3", "c", "2", "0", "0", "3">>,
      <<"4", "1", "3", "c", "-", "2", "0", "0", "3">>,
      <<"4", "1", "3", "g", ":", "2", "0", "0", "3">>,
      <<"4", "1", "3", "c", ":", "2", "0", "0", "3", "0">>,
      <<"4", "1", "3", "c", ":", "2", "0", "g", "3">> }

\* argv[1..argc-1] for argc in 1..4
Argvs ==
    {<<>>}
    \cup {<<a>> : a \in Argv1s}
    \cup {<<a, s>> : a \in Argv1s, s \in Strings}
    \cup {<<a, s, t>> : a \in Argv1s, s \in Strings, t \in Strings}

\* (idVendor, idProduct) of the attached devices: 413c:2003, 0123:0001 and
\* 413c:0001, which shares one id with each of the other two
DeviceIds == {<<16700, 8195>>, <<291, 1>>, <<16700, 1>>}

\* a device: its ids, and whether libusb_get_device_descriptor succeeds on it
Devices ==
    [idVendor : {d[1] : d \in DeviceIds}, idProduct : {d[2] : d \in DeviceIds},
     readable : BOOLEAN]

AttachedDevices == {d \in Devices : <<d.idVendor, d.idProduct>> \in DeviceIds}

\* what libusb_get_device_list can return in *list
Snapshots == UNION {[1..n -> AttachedDevices] : n \in 0..MaxDevs}

Call(name, idx, ok, arg) == [call |-> name, idx |-> idx, ok |-> ok, arg |-> arg]

Line(text) == [text |-> text, arg |-> "", len |-> 0]
NamedLine(text, s) == [text |-> text, arg |-> s, len |-> Len(s)]

UsageLine == Line("Usage:")
NotFoundLine == Line("No such USB device found.")
ResettingLine == Line("Resetting this device ...")
WarningLine == Line("It seems the reset process did not end properly.")
FinishedLine == Line("Finished.")
ErrorLine == Line("Error occured.")
DetailLine(what) == [text |-> "Detail: ", arg |-> what, len |-> 0]

InitMsg == "Failed to initialize libusb."
ListMsg == "Failed to get device list from libusb."
DescMsg == "Failed to get device descriptor."
OpenMsg == "Failed to get handle for usb device. Insufficient privilege?"
RangeMsg == "DeviceList: Index out of range."

argc == Len(argv) + 1

-----------------------------------------------------------------------------
(* The program *)

\* the process starts in main with the argument vector args
Start(args) ==
    /\ pc = "main"
    /\ argv = args
    /\ pair = <<>>
    /\ product = <<>>
    /\ manufacturer = <<>>
    /\ exc = <<>>
    /\ ctx = FALSE
    /\ devsLive = FALSE
    /\ devs = <<>>
    /\ i = 0
    /\ desc = <<>>
    /\ hnd = FALSE
    /\ arr = <<>>
    /\ prod = ""
    /\ manu = ""
    /\ out = <<>>
    /\ log = <<>>
    /\ exitCode = -1

\* main with argc other than 2 and 4: the usage text, return 0
Usage ==
    /\ pc = "main"
    /\ ~(argc = 2 \/ argc = 4)
    /\ out' = Append(out, UsageLine)
    /\ exitCode' = 0
    /\ pc' = "done"
    /\ UNCHANGED <<argv, pair, product, manufacturer, exc, ctx, devsLive, devs,
                   i, desc, hnd, arr, prod, manu, log>>

\* main with argc 2 or 4: parse_argv1(argv[1]) is evaluated, then reset is
\* entered with product and manufacturer null (argc 2) or argv[2], argv[3]
ParseArgv1 ==
    /\ pc = "main"
    /\ (argc = 2 \/ argc = 4)
    /\ LET r == parse_argv1(argv[1])
       IN  IF r.ok
           THEN /\ pair' = <<r.p>>
                /\ product' = IF argc = 2 THEN <<>> ELSE <<argv[2]>>
                /\ manufacturer' = IF argc = 2 THEN <<>> ELSE <<argv[3]>>
                /\ pc' = "ctx"
                /\ exc' = exc
           ELSE /\ exc' = <<r.what>>
                /\ pc' = "catch"
                /\ UNCHANGED <<pair, product, manufacturer>>
    /\ UNCHANGED <<argv, ctx, devsLive, devs, i, desc, hnd, arr, prod, manu,
                   out, log, exitCode>>

\* UsbContext ctx;
UsbContextCtor ==
    /\ pc = "ctx"
    /\ \E ok \in BOOLEAN :
        /\ log' = Append(log, Call("libusb_init", -1, ok, ""))
        /\ IF ok
           THEN ctx' = TRUE /\ pc' = "devs" /\ exc' = exc
           ELSE ctx' = ctx /\ pc' = "unwind" /\ exc' = <<InitMsg>>
    /\ UNCHANGED <<argv, pair, product, manufacturer, devsLive, devs, i, desc,
                   hnd, arr, prod, manu, out, exitCode>>

\* faulty variant of DeviceListCtor: the object get_device_list returns is
\* copied into devs and then destroyed, so the list is freed while devs
\* still refers to it
DeviceListCtor_Copied ==
    /\ pc = "devs"
    /\ \/ \E list \in Snapshots :
            /\ log' = log \o <<Call("libusb_get_device_list", -1, TRUE, ""),
                               Call("libusb_free_device_list", -1, TRUE, "")>>
            /\ devs' = list
            /\ devsLive' = TRUE
            /\ i' = 0
            /\ pc' = "loop"
            /\ exc' = exc
       \/ /\ log' = Append(log, Call("libusb_get_device_list", -1, FALSE, ""))
          /\ exc' = <<ListMsg>>
          /\ pc' = "unwind"
          /\ UNCHANGED <<devs, devsLive, i>>
    /\ UNCHANGED <<argv, pair, product, manufacturer, ctx, desc, hnd, arr, prod,
                   manu, out, exitCode>>

\* DeviceList devs = ctx.get_device_list(); the returned object is built in
\* place (the copy is elided), so one DeviceList object exists
DeviceListCtor ==
    /\ pc = "devs"
    /\ \/ \E list \in Snapshots :
            /\ log' = Append(log, Call("libusb_get_device_list", -1, TRUE, ""))
            /\ devs' = list
            /\ devsLive' = TRUE
            /\ i' = 0
            /\ pc' = "loop"
            /\ exc' = exc
       \/ /\ log' = Append(log, Call("libusb_get_device_list", -1, FALSE, ""))
          /\ exc' = <<ListMsg>>
          /\ pc' = "unwind"
          /\ UNCHANGED <<devs, devsLive, i>>
    /\ UNCHANGED <<argv, pair, product, manufacturer, ctx, desc, hnd, arr, prod,
                   manu, out, exitCode>>

\* DeviceList::size
size == Len(devs)

\* DeviceList::operator[] refuses this index
OutOfRange(idx) == idx < 0 \/ idx >= size

\* i < devs.size(), and the statement after the loop
LoopTest ==
    /\ pc = "loop"
    /\ IF i < size
       THEN pc' = "desc" /\ out' = out
       ELSE pc' = "unwind" /\ out' = Append(out, NotFoundLine)
    /\ UNCHANGED <<argv, pair, product, manufacturer, exc, ctx, devsLive, devs,
                   i, desc, hnd, arr, prod, manu, log, exitCode>>

\* faulty variant of Matches: the product id is not compared
Matches_VendorOnly(d, p) == d.idVendor = p[1]

\* desc.idVendor == p.first && desc.idProduct == p.second
Matches(d, p) == d.idVendor = p[1] /\ d.idProduct = p[2]

\* faulty variant of GetDeviceDescriptor: a device whose descriptor cannot be
\* read is skipped
GetDeviceDescriptor_Skips ==
    /\ pc = "desc"
    /\ LET d == devs[i + 1]
       IN  /\ log' = Append(log, Call("libusb_get_device_descriptor",
                                      i, d.readable, ""))
           /\ desc' = IF d.readable THEN <<d>> ELSE desc
           /\ IF d.readable /\ d.idVendor = pair[1][1]
                 /\ d.idProduct = pair[1][2]
              THEN pc' = "open" /\ i' = i
              ELSE pc' = "loop" /\ i' = i + 1
    /\ UNCHANGED <<argv, pair, product, manufacturer, exc, ctx, devsLive, devs,
                   hnd, arr, prod, manu, out, exitCode>>

\* libusb_get_device_descriptor(devs[i], &desc), the comparison, ++ i
GetDeviceDescriptor ==
    /\ pc = "desc"
    /\ IF OutOfRange(i)
       THEN /\ exc' = <<RangeMsg>>
            /\ pc' = "unwind"
            /\ UNCHANGED <<log, desc, i>>
       ELSE LET d == devs[i + 1]
            IN  /\ log' = Append(log, Call("libusb_get_device_descriptor",
                                           i, d.readable, ""))
                /\ IF ~d.readable
                   THEN /\ exc' = <<DescMsg>>
                        /\ pc' = "unwind"
                        /\ UNCHANGED <<desc, i>>
                   ELSE /\ desc' = <<d>>
                        /\ exc' = exc
                        /\ IF Matches(d, pair[1])
                           THEN pc' = "open" /\ i' = i
                           ELSE pc' = "loop" /\ i' = i + 1
    /\ UNCHANGED <<argv, pair, product, manufacturer, ctx, devsLive, devs, hnd,
                   arr, prod, manu, out, exitCode>>

\* faulty variant of DeviceHandleCtor: the result of libusb_open is ignored
DeviceHandleCtor_Unchecked ==
    /\ pc = "open"
    /\ \E ok \in BOOLEAN :
        log' = Append(log, Call("libusb_open", i, ok, ""))
    /\ hnd' = TRUE
    /\ pc' = "product"
    /\ UNCHANGED <<argv, pair, product, manufacturer, exc, ctx, devsLive, devs,
                   i, desc, arr, prod, manu, out, exitCode>>

\* DeviceHandle hnd = devs[i];
DeviceHandleCtor ==
    /\ pc = "open"
    /\ IF OutOfRange(i)
       THEN /\ exc' = <<RangeMsg>>
            /\ pc' = "unwind"
            /\ UNCHANGED <<log, hnd>>
       ELSE \E ok \in BOOLEAN :
            /\ log' = Append(log, Call("libusb_open", i, ok, ""))
            /\ IF ok
               THEN hnd' = TRUE /\ pc' = "product" /\ exc' = exc
               ELSE hnd' = hnd /\ pc' = "unwind" /\ exc' = <<OpenMsg>>
    /\ UNCHANGED <<argv, pair, product, manufacturer, ctx, devsLive, devs, i,
                   desc, arr, prod, manu, out, exitCode>>

\* what std::string(str) reads from arr: the string the last successful
\* libusb_get_string_descriptor_ascii left there, and any bytes at all when
\* arr was never written
StringOf(buffer) == IF buffer = <<>> THEN Strings ELSE {buffer[1]}

\* libusb_get_string_descriptor_ascii(hnd, desc.iProduct, arr, 256);
\* std::string prod(str);  A failing read leaves arr as it was.
GetProductString ==
    /\ pc = "product"
    /\ \E ok \in BOOLEAN, s \in Strings :
        /\ log' = Append(log, Call("libusb_get_string_descriptor_ascii",
                                   i, ok, "iProduct"))
        /\ arr' = IF ok THEN <<s>> ELSE arr
        /\ prod' \in StringOf(arr')
    /\ pc' = "manufacturer"
    /\ UNCHANGED <<argv, pair, product, manufacturer, exc, ctx, devsLive, devs,
                   i, desc, hnd, manu, out, exitCode>>

\* libusb_get_string_descriptor_ascii(hnd, desc.iManufacturer, arr, 256);
\* std::string manu(str);
GetManufacturerString ==
    /\ pc = "manufacturer"
    /\ \E ok \in BOOLEAN, s \in Strings :
        /\ log' = Append(log, Call("libusb_get_string_descriptor_ascii",
                                   i, ok, "iManufacturer"))
        /\ arr' = IF ok THEN <<s>> ELSE arr
        /\ manu' \in StringOf(arr')
    /\ pc' = "decide"
    /\ UNCHANGED <<argv, pair, product, manufacturer, exc, ctx, devsLive, devs,
                   i, desc, hnd, prod, out, exitCode>>

\* faulty variant of ShouldReset: one differing string is enough
ShouldReset_Either ==
    \/ /\ product # <<>>
       /\ manufacturer # <<>>
       /\ (prod # product[1] \/ manu # manufacturer[1])
    \/ product = <<>> /\ manufacturer = <<>>

\* the condition of the if statement guarding the reset
ShouldReset ==
    \/ /\ product # <<>>
       /\ manufacturer # <<>>
       /\ prod # product[1]
       /\ manu # manufacturer[1]
    \/ product = <<>> /\ manufacturer = <<>>

\* faulty variant of Decide: a device that is left alone does not end the
\* scan (continue in place of return)
Decide_Continues ==
    /\ pc = "decide"
    /\ IF ShouldReset
       THEN /\ out' = out \o <<NamedLine("Product: ", prod),
                               NamedLine("Manufacturer: ", manu),
                               ResettingLine>>
            /\ pc' = "reset"
            /\ UNCHANGED <<i, hnd, log>>
       ELSE /\ out' = out
            /\ log' = Append(log, Call("libusb_close", i, TRUE, ""))
            /\ hnd' = FALSE
            /\ i' = i + 1
            /\ pc' = "loop"
    /\ UNCHANGED <<argv, pair, product, manufacturer, exc, ctx, devsLive, devs,
                   desc, arr, prod, manu, exitCode>>

\* the if statement and the three lines printed before the reset
Decide ==
    /\ pc = "decide"
    /\ IF ShouldReset
       THEN /\ out' = out \o <<NamedLine("Product: ", prod),
                               NamedLine("Manufacturer: ", manu),
                               ResettingLine>>
            /\ pc' = "reset"
       ELSE /\ out' = out
            /\ pc' = "unwind"
    /\ UNCHANGED <<argv, pair, product, manufacturer, exc, ctx, devsLive, devs,
                   i, desc, hnd, arr, prod, manu, log, exitCode>>

\* faulty variant of ResetDevice: a failed reset is thrown
ResetDevice_Throws ==
    /\ pc = "reset"
    /\ \E ok \in BOOLEAN :
        /\ log' = Append(log, Call("libusb_reset_device", i, ok, ""))
        /\ out' = IF ok THEN Append(out, FinishedLine) ELSE out
        /\ exc' = IF ok THEN exc ELSE <<"Failed to reset the device.">>
    /\ pc' = "unwind"
    /\ UNCHANGED <<argv, pair, product, manufacturer, ctx, devsLive, devs, i,
                   desc, hnd, arr, prod, manu, exitCode>>

\* libusb_reset_device(hnd), the warning, "Finished.", return
ResetDevice ==
    /\ pc = "reset"
    /\ \E ok \in BOOLEAN :
        /\ log' = Append(log, Call("libusb_reset_device", i, ok, ""))
        /\ out' = (IF ok THEN out ELSE Append(out, WarningLine))
                  \o <<FinishedLine>>
    /\ pc' = "unwind"
    /\ UNCHANGED <<argv, pair, product, manufacturer, exc, ctx, devsLive, devs,
                   i, desc, hnd, arr, prod, manu, exitCode>>

\* faulty variant of NextDtor: destruction in the order of construction
NextDtor_ConstructionOrder ==
    IF ctx THEN "ctx" ELSE IF devsLive THEN "devs" ELSE IF hnd THEN "hnd"
    ELSE "none"

\* leaving reset, by return or by exception: the constructed objects are
\* destroyed in the reverse order of their construction
NextDtor ==
    IF hnd THEN "hnd" ELSE IF devsLive THEN "devs" ELSE IF ctx THEN "ctx"
    ELSE "none"

\* ~DeviceHandle
DeviceHandleDtor ==
    /\ pc = "unwind"
    /\ NextDtor = "hnd"
    /\ log' = Append(log, Call("libusb_close", i, TRUE, ""))
    /\ hnd' = FALSE
    /\ UNCHANGED <<pc, argv, pair, product, manufacturer, exc, ctx, devsLive,
                   devs, i, desc, arr, prod, manu, out, exitCode>>

\* ~DeviceList
DeviceListDtor ==
    /\ pc = "unwind"
    /\ NextDtor = "devs"
    /\ log' = Append(log, Call("libusb_free_device_list", -1, TRUE, ""))
    /\ devsLive' = FALSE
    /\ UNCHANGED <<pc, argv, pair, product, manufacturer, exc, ctx, devs, i,
                   desc, hnd, arr, prod, manu, out, exitCode>>

\* ~UsbContext
UsbContextDtor ==
    /\ pc = "unwind"
    /\ NextDtor = "ctx"
    /\ log' = Append(log, Call("libusb_exit", -1, TRUE, ""))
    /\ ctx' = FALSE
    /\ UNCHANGED <<pc, argv, pair, product, manufacturer, exc, devsLive, devs,
                   i, desc, hnd, arr, prod, manu, out, exitCode>>

\* reset is left: back in main, in the try block or in its handler
LeaveReset ==
    /\ pc = "unwind"
    /\ NextDtor = "none"
    /\ pc' = IF exc = <<>> THEN "return" ELSE "catch"
    /\ UNCHANGED <<argv, pair, product, manufacturer, exc, ctx, devsLive, devs,
                   i, desc, hnd, arr, prod, manu, out, log, exitCode>>

\* catch (std::exception &s): the two lines, return 1
Catch ==
    /\ pc = "catch"
    /\ out' = out \o <<ErrorLine, DetailLine(exc[1])>>
    /\ exitCode' = 1
    /\ pc' = "done"
    /\ UNCHANGED <<argv, pair, product, manufacturer, exc, ctx, devsLive, devs,
                   i, desc, hnd, arr, prod, manu, log>>

\* return 0 at the end of main
ReturnZero ==
    /\ pc = "return"
    /\ exitCode' = 0
    /\ pc' = "done"
    /\ UNCHANGED <<argv, pair, product, manufacturer, exc, ctx, devsLive, devs,
                   i, desc, hnd, arr, prod, manu, out, log>>

Next ==
    \/ Usage
    \/ ParseArgv1
    \/ UsbContextCtor
    \/ DeviceListCtor
    \/ LoopTest
    \/ GetDeviceDescriptor
    \/ DeviceHandleCtor
    \/ GetProductString
    \/ GetManufacturerString
    \/ Decide
    \/ ResetDevice
    \/ DeviceHandleDtor
    \/ DeviceListDtor
    \/ UsbContextDtor
    \/ LeaveReset
    \/ Catch
    \/ ReturnZero

Init == \E args \in Argvs : Start(args)

Spec == Init /\ [][Next]_vars

-----------------------------------------------------------------------------
(* The identifier parser alone: main up to the call of reset, on every     *)
(* argv[1] with one half drawn from all strings of four HalfChars and the  *)
(* other from SampleHalves, and on some of other shapes.                   *)

HalfChars == {"0", "9", "a", "F", "g", " ", "+", "-", "x"}

Halves == [1..4 -> HalfChars]

SampleHalves ==
    { <<"4", "1", "3", "c">>, <<"2", "0", "0", "3">>, <<"f", "f", "f", "f">>,
      <<"0", "0", "0", "0">>, <<"A", "b", "C", "d">> }

Separators == {":", "0", "-"}

InitParse ==
    \/ \E h \in Halves, s \in SampleHalves :
          Start(<<h \o <<":">> \o s>>) \/ Start(<<s \o <<":">> \o h>>)
    \/ \E s \in SampleHalves, r \in SampleHalves :
          \/ \E c \in Separators : Start(<<s \o <<c>> \o r>>)
          \/ \E c \in HalfChars : Start(<<s \o <<":">> \o r \o <<c>>>>)
          \/ \E n \in 0..4 : Start(<<s \o SubSeq(r, 1, n)>>)

NextParse == ParseArgv1 \/ Catch

SpecParse == InitParse /\ [][NextParse]_vars

-----------------------------------------------------------------------------
(* Vocabulary of the properties *)

\* positions in log of the calls of a libusb function, and of those that
\* succeeded
Calls(name) == {k \in DOMAIN log : log[k].call = name}
Succeeded(name) == {k \in Calls(name) : log[k].ok}

\* how many positions of S come before position k
Before(S, k) == Cardinality({j \in S : j < k})

\* main called parse_argv1 and it has returned or thrown
Parsed == (argc = 2 \/ argc = 4) /\ pc # "main"

ParseFailed == Parsed /\ pair = <<>>

\* four hexadecimal digits, a colon, four hexadecimal digits
WellFormed(in) ==
    /\ Len(in) = 9
    /\ in[5] = ":"
    /\ \A k \in (1..4) \cup (6..9) : IsXDigit(in[k])

\* the number four hexadecimal digits denote
HexValue(h) ==
    XDigitValue(h[1]) * 4096 + XDigitValue(h[2]) * 256
    + XDigitValue(h[3]) * 16 + XDigitValue(h[4])

\* the error the checks of the specification give for a malformed identifier
ExpectedError(in) ==
    IF Len(in) # 9 \/ in[5] # ":" THEN FormatMsg
    ELSE IF \E k \in 1..4 : ~IsXDigit(in[k]) THEN VendorMsg
    ELSE ProductMsg

\* indices (from 0) of the devices of the snapshot with the requested ids
MatchingIndices ==
    IF pair = <<>> THEN {}
    ELSE {k \in 0..(Len(devs) - 1) :
            /\ devs[k + 1].idVendor = pair[1][1]
            /\ devs[k + 1].idProduct = pair[1][2]}

FirstMatch == CHOOSE k \in MatchingIndices : \A j \in MatchingIndices : k <= j

IsDescriptorRead(e) == e.call = "libusb_get_device_descriptor"

AcquireCalls == {"libusb_init", "libusb_get_device_list", "libusb_open"}
ReleaseCalls == {"libusb_exit", "libusb_free_device_list", "libusb_close"}
FatalCalls == AcquireCalls \cup {"libusb_get_device_descriptor"}

\* positions in log of the fatal steps that failed
FatalFailures == {k \in DOMAIN log : log[k].call \in FatalCalls /\ ~log[k].ok}

Occurrences(line) == Cardinality({k \in DOMAIN out : out[k] = line})

-----------------------------------------------------------------------------
(* C1: on every way out of reset the resources are released in the reverse *)
(* of the order they were acquired in: when libusb_exit is called no       *)
(* device list and no handle is held, when libusb_free_device_list is      *)
(* called no handle is held, and when the process ends nothing is held.    *)
C1_ReverseOrderRelease ==
    /\ \A k \in Calls("libusb_exit") :
        /\ Before(Succeeded("libusb_get_device_list"), k)
             = Before(Calls("libusb_free_device_list"), k)
        /\ Before(Succeeded("libusb_open"), k) = Before(Calls("libusb_close"), k)
    /\ \A k \in Calls("libusb_free_device_list") :
        /\ Before(Succeeded("libusb_open"), k) = Before(Calls("libusb_close"), k)
        /\ Before(Succeeded("libusb_init"), k) > Before(Calls("libusb_exit"), k)
    /\ \A k \in Calls("libusb_close") :
        /\ Before(Succeeded("libusb_get_device_list"), k)
             > Before(Calls("libusb_free_device_list"), k)
        /\ Before(Succeeded("libusb_init"), k) > Before(Calls("libusb_exit"), k)
    /\ pc = "done" =>
        /\ Succeeded("libusb_open") # {} => Calls("libusb_close") # {}
        /\ Succeeded("libusb_get_device_list") # {}
             => Calls("libusb_free_device_list") # {}
        /\ Succeeded("libusb_init") # {} => Calls("libusb_exit") # {}

\* a run that opened a handle has ended, with all three resources released
C1_Witness ==
    /\ pc = "done"
    /\ Calls("libusb_close") # {}
    /\ Calls("libusb_free_device_list") # {}
    /\ Calls("libusb_exit") # {}

(* C2: each of the session, the device list and the handle is acquired at  *)
(* most once, never released more often than acquired, and when the        *)
(* process ends released exactly as often as it was acquired.              *)
C2_ReleasedExactlyOnce ==
    \A r \in {<<"libusb_init", "libusb_exit">>,
              <<"libusb_get_device_list", "libusb_free_device_list">>,
              <<"libusb_open", "libusb_close">>} :
        /\ Cardinality(Calls(r[1])) <= 1
        /\ Cardinality(Calls(r[2])) <= Cardinality(Succeeded(r[1]))
        /\ pc = "done" =>
             Cardinality(Calls(r[2])) = Cardinality(Succeeded(r[1]))

\* a run has ended in an error with the session and the device list acquired
C2_Witness ==
    /\ pc = "done"
    /\ exitCode = 1
    /\ Succeeded("libusb_init") # {}
    /\ Succeeded("libusb_get_device_list") # {}
    /\ Calls("libusb_open") # {}

(* C3: for four hexadecimal digits, a colon and four hexadecimal digits    *)
(* parse_argv1 returns the pair of the numbers the two halves denote in    *)
(* base 16, both in 0..65535; "413c:2003" gives (0x413c, 0x2003).          *)
C3_ParsesWellFormed ==
    /\ (Parsed /\ WellFormed(argv[1])) =>
         /\ pair = << <<HexValue(SubSeq(argv[1], 1, 4)),
                        HexValue(SubSeq(argv[1], 6, 9))>> >>
         /\ pair[1][1] \in 0..65535
         /\ pair[1][2] \in 0..65535
         /\ pc # "catch"
    /\ (Parsed /\ argv[1] = <<"4", "1", "3", "c", ":", "2", "0", "0", "3">>) =>
         pair = << <<16700, 8195>> >>

\* an identifier with upper and lower case digits and the largest vendor id
\* has been parsed
C3_Witness ==
    /\ Parsed
    /\ argv[1] = <<"f", "f", "f", "f", ":", "a", "F", "9", "0">>
    /\ pair = << <<65535, 44944>> >>

(* C4: parse_argv1 rejects every identifier that is not four hexadecimal   *)
(* digits, a colon, four hexadecimal digits, with the error the ordered    *)
(* checks give: format, then vendor id, then product id.                   *)
C4_RejectsMalformed ==
    (Parsed /\ ~WellFormed(argv[1])) =>
        /\ pair = <<>>
        /\ exc = <<ExpectedError(argv[1])>>

(* C5: once the handle of the matching device is open and the run has      *)
(* ended, the reset was issued if and only if the mode is unconditional or *)
(* the product string differs from the expected one and the manufacturer   *)
(* string differs from the expected one; a run that skips prints nothing.  *)
C5_ResetDecision ==
    (pc = "done" /\ Succeeded("libusb_open") # {}) =>
        /\ Calls("libusb_reset_device") # {}
             <=> (argc = 2 \/ (prod # argv[2] /\ manu # argv[3]))
        /\ Calls("libusb_reset_device") = {} => out = <<>>

\* a conditional run has ended on a device whose product string is wrong and
\* whose manufacturer string is the expected one
C5_Witness ==
    /\ pc = "done"
    /\ argc = 4
    /\ Succeeded("libusb_open") # {}
    /\ prod # argv[2]
    /\ manu = argv[3]
    /\ Succeeded("libusb_get_string_descriptor_ascii") # {}

(* C6: a run in which the reset was issued ends with exit code 0 and       *)
(* "Finished." as its last line, and without the error diagnostic, whether *)
(* the reset succeeded or failed; after a failed reset the warning is the  *)
(* line before "Finished.".                                                *)
C6_ResetFailureNotFatal ==
    (pc = "done" /\ Calls("libusb_reset_device") # {}) =>
        /\ exitCode = 0
        /\ exc = <<>>
        /\ out[Len(out)] = FinishedLine
        /\ Occurrences(FinishedLine) = 1
        /\ Occurrences(ErrorLine) = 0
        /\ IF Succeeded("libusb_reset_device") = {}
           THEN out[Len(out) - 1] = WarningLine /\ Occurrences(WarningLine) = 1
           ELSE Occurrences(WarningLine) = 0

\* a run whose reset failed has ended
C6_Witness ==
    /\ pc = "done"
    /\ Calls("libusb_reset_device") # {}
    /\ Succeeded("libusb_reset_device") = {}

C8_NotFound ==
    /\ ( /\ pc = "done"
         /\ Succeeded("libusb_init") # {}
         /\ Succeeded("libusb_get_device_list") # {}
         /\ \A k \in DOMAIN devs : devs[k].readable
         /\ MatchingIndices = {} )
       => /\ out = <<NotFoundLine>>
          /\ Calls("libusb_open") = {}
          /\ Calls("libusb_reset_device") = {}
          /\ exitCode = 0
    /\ Occurrences(NotFoundLine) <= 1
    /\ Occurrences(NotFoundLine) = 1 => MatchingIndices = {}

\* a run has ended without a match on a snapshot holding a device with the
\* requested vendor id and another product id
C8_Witness ==
    /\ pc = "done"
    /\ out = <<NotFoundLine>>
    /\ \E k \in DOMAIN devs :
         devs[k].idVendor = pair[1][1] /\ devs[k].idProduct # pair[1][2]

(* C9: the descriptors are read at the indices 0, 1, 2, ... in this order, *)
(* each inside [0, count); the handle is opened on the lowest index with   *)
(* the requested ids and no descriptor beyond that index is read; when a   *)
(* device at or below that index is unreadable the run ends with exit code *)
(* 1 and the descriptor error, and nothing is opened or reset.             *)
C9_ScanInOrder ==
    LET reads == SelectSeq(log, IsDescriptorRead)
    IN  /\ \A n \in DOMAIN reads :
             reads[n].idx = n - 1 /\ reads[n].idx < Len(devs)
        /\ \A k \in Calls("libusb_open") :
             MatchingIndices # {} /\ log[k].idx = FirstMatch
        /\ MatchingIndices # {} =>
             \A n \in DOMAIN reads : reads[n].idx <= FirstMatch
        /\ ( /\ pc = "done"
             /\ MatchingIndices # {}
             /\ \E j \in 0..FirstMatch : ~devs[j + 1].readable )
           => /\ exitCode = 1
              /\ exc = <<DescMsg>>
              /\ Calls("libusb_open") = {}
              /\ Calls("libusb_reset_device") = {}

\* a run has ended on a snapshot whose first device is unreadable and whose
\* second device has the requested ids
C9_Witness ==
    /\ pc = "done"
    /\ MatchingIndices # {}
    /\ FirstMatch = 1
    /\ ~devs[1].readable
    /\ devs[2].readable

(* C10: at most one handle is opened and at most one reset is issued, and  *)
(* every call on a device (open, string reads, reset, close) is on the     *)
(* first device with the requested ids; the reset comes after the open,    *)
(* the read of the product string and the read of the manufacturer string, *)
(* in this order, each made once.                                          *)
C10_FirstMatchOnly ==
    /\ Cardinality(Calls("libusb_open")) <= 1
    /\ Cardinality(Calls("libusb_reset_device")) <= 1
    /\ Cardinality(Calls("libusb_get_string_descriptor_ascii")) <= 2
    /\ \A k \in DOMAIN log :
         log[k].call \in {"libusb_open", "libusb_get_string_descriptor_ascii",
                          "libusb_reset_device", "libusb_close"}
           => MatchingIndices # {} /\ log[k].idx = FirstMatch
    /\ \A k \in Calls("libusb_reset_device") :
         /\ k > 3
         /\ log[k - 3].call = "libusb_open" /\ log[k - 3].ok
         /\ log[k - 2].call = "libusb_get_string_descriptor_ascii"
         /\ log[k - 2].arg = "iProduct"
         /\ log[k - 1].call = "libusb_get_string_descriptor_ascii"
         /\ log[k - 1].arg = "iManufacturer"

\* a conditional run has ended without a reset on a snapshot with two
\* devices of the requested ids
C10_Witness ==
    /\ pc = "done"
    /\ argc = 4
    /\ Cardinality(MatchingIndices) = 2
    /\ Succeeded("libusb_open") # {}
    /\ Calls("libusb_reset_device") = {}

=============================================================================
